---- MODULE Spec2Model ----
(***************************************************************************)
(* Download-and-extract orchestration of st-visium-datasets.               *)
(*                                                                         *)
(* Two orchestrators live in the repository:                               *)
(*   - DownloadManager (st_atlas_datasets/utils/download_manager.py):      *)
(*     download -> compute_md5sum -> extract per resource.  SpecDM is the  *)
(*     manager called repeatedly with one UriType (the inline path of      *)
(*     download_and_extract); SpecBatch is one call with a sequence, run   *)
(*     on the ThreadPoolExecutor through Executor.map; SpecRerun is SpecDM *)
(*     where, between calls, the manager may be rebuilt with other         *)
(*     policies and the publisher may replace the remote resource.         *)
(*   - download_visium_datasets (st_visium_datasets/utils/download.py):    *)
(*     a retry loop around _download_file/_validate_md5sum followed by     *)
(*     _extract_file, one future per file.  SpecVD is that function called *)
(*     repeatedly on a dataset of one file.                                *)
(* SpecDF is DataFile.download of st_visium_datasets/data_file.py, called  *)
(* repeatedly on one DataFile object.  SpecFn applies DataFile.parse,      *)
(* DataFile.build_local_filepath, DownloadManager.compute_md5sum,          *)
(* ExtractorManager.get_extractor and the dispatch of                      *)
(* download_and_extract to one argument each.  SpecWith is a manager used  *)
(* in one `with` statement after the other, one call in each, as           *)
(* VisiumDatasetBuilder.download does.                                     *)
(*                                                                         *)
(* Paths and URIs are tuples of strings whose first component is the       *)
(* scheme and whose last component is the extension.  File contents are    *)
(* sequences of chunks (one chunk = one io_buffer_size read); chunk 0 is a *)
(* hole left by a write past the end of a truncated file.                  *)
(***************************************************************************)
EXTENDS Integers, Sequences, FiniteSets, TLC

\* ---------------------------------------------------------------- bounds
\* chunks in every remote resource (reads of io_buffer_size bytes)
NumChunks == 2
\* resources submitted in one batch call
MaxBatch == 2
\* calls of download_and_extract on one manager configuration
MaxCalls == 2

\* ------------------------------------------------------------- constants
NoMd5 == 0 - 1
TarMagic == 1
ZipMagic == 2
PlainByte == 3
\* a chunk holding an archive member whose name climbs out of the target
UnsafeByte == 4
\* a chunk of the second edition of a remote resource
RevisedByte == 5
\* the head of a file that opens both as a tar and as a zip archive
PolyglotMagic == 6
Md5Base == 7

VARIABLES
    cfg,        \* the manager's fields, or download_visium_datasets' keywords
    uris,       \* the sequence handed to download_and_extract (the files of
                \* `datasets` for download_visium_datasets)
    mode,       \* "single": one UriType, run inline; "batch": Executor.map;
                \* "visium": download_visium_datasets; "datafile": the
                \* st_visium DataFile.download; "fn": one function applied
                \* to one argument
    pc,         \* per submitted resource: position of its _worker
    cur,        \* per resource: the DataFile flowing through the pipeline
                \* (in mode "datafile": the object's _local_path)
    off,        \* per resource: chunks already written by its open "wb" handle
    err,        \* per resource: the exception its _worker raised
    mainpc,     \* caller of download_and_extract: calling / returned / raised
                \* (around it, in a with statement: entering / entered, then
                \* shutdown / exited / exit_raised)
    collected,  \* results already yielded by Executor.map's result iterator
                \* (by as_completed: the set of futures already yielded)
    calls,      \* number of the current call
    outs,       \* outcome of every finished call
    files,      \* data files on disk: path -> content
    memos,      \* .md5sum files on disk: path -> text
    manifests,  \* extracted_files.json files on disk: path -> member names
    dirs,       \* directories created by the manager
    unpacked,   \* members written below each extraction directory
    xfers,      \* per resource: transfers started (all calls)
    nextract,   \* per resource: extractions started (all calls)
    retry,      \* per resource: i of _download_and_extract_file's while loop
    revised,    \* remote URIs whose publisher has replaced the resource
    held,       \* context managers of the DownloadManager entered and not
                \* yet left: "progress" (_progress), "executor" (_executor)
    shut        \* the ThreadPoolExecutor of the manager has been shut down

vars == <<cfg, uris, mode, pc, cur, off, err, mainpc, collected, calls, outs,
          files, memos, manifests, dirs, unpacked, xfers, nextract, retry, revised,
          held, shut>>

\* ----------------------------------------------------------- filesystem
Exists(fsmap, p) == p \in DOMAIN fsmap

WriteFile(fsmap, p, c) ==
    [q \in (DOMAIN fsmap) \cup {p} |-> IF q = p THEN c ELSE fsmap[q]]

Zeros(n) == [i \in 1..n |-> 0]

\* fout.write(chunk) on a handle positioned after o chunks
WriteAt(c, o, b) ==
    IF o < Len(c) THEN [c EXCEPT ![o + 1] = b]
    ELSE c \o Zeros(o - Len(c)) \o <<b>>

\* ---------------------------------------------------------------- md5
RECURSIVE Md5Update(_, _)
Md5Update(h, c) ==
    IF c = <<>> THEN h ELSE Md5Update(h * Md5Base + Head(c), Tail(c))

\* hashlib.md5() fed chunk by chunk, then hexdigest()
Md5Hex(c) == Md5Update(1, c)

\* ------------------------------------------------------------ resources
Ext(u) == u[Len(u)]

Scheme(u) == u[1]

RemoteUris == { <<"https", "spatial", ".tar.gz">>, <<"https", "summary", ".csv">> }

\* archives that hold a member named ../../etc/passwd
BundleUris == { <<"https", "bundle", ".tar">>, <<"https", "bundle", ".zip">> }

\* a file staged on the local disk, and a local path where no file is
StagedFile == <<"file", "staged", "tissue", ".tif">>

AbsentFile == <<"file", "staged", "absent", ".tif">>

StagedContent == [i \in 1..NumChunks |-> PlainByte]

\* bytes served for a remote URI: archives start with their magic bytes
RemoteContent(u) ==
    [i \in 1..NumChunks |->
        IF i = 1 /\ Ext(u) \in {".tar.gz", ".tar"} THEN TarMagic
        ELSE IF i = 1 /\ Ext(u) = ".zip" THEN ZipMagic
        ELSE IF i = NumChunks /\ u \in BundleUris THEN UnsafeByte
        ELSE IF i = NumChunks /\ u \in revised THEN RevisedByte
        ELSE PlainByte]

\* hashlib.md5(uri.encode()).hexdigest()
UriMd5(u) ==
    IF u[2] = "spatial" THEN "1e0c"
    ELSE IF u[2] = "bundle" /\ Ext(u) = ".tar" THEN "c41a"
    ELSE IF u[2] = "bundle" THEN "90fd"
    ELSE "7b52"

\* ------------------------------------------------------------- DataFile
DataFile(u, m, n) == [uri |-> u, md5sum |-> m, name |-> n]

NoData == DataFile(<<>>, NoMd5, <<>>)

extention(file) == Ext(file.uri)

\* name defaults to the last path component of the uri: <<stem, extension>>
DefaultName(u) == <<u[Len(u) - 1], u[Len(u)]>>

parse(item) ==
    IF item.name = <<>> THEN DataFile(item.uri, item.md5sum, DefaultName(item.uri))
    ELSE item

copy_with_uri(file, u) == DataFile(u, file.md5sum, file.name)

\* mutant: the new md5sum is not taken over
copy_with_md5sum_Dropped(file, m) == file

copy_with_md5sum(file, m) == DataFile(file.uri, m, file.name)

\* the characters of the path components that occur
Spelling ==
    "tissue" :> <<"t", "i", "s", "s", "u", "e">> @@
    "absent" :> <<"a", "b", "s", "e", "n", "t">> @@
    "absen" :> <<"a", "b", "s", "e", "n">> @@
    "spatial" :> <<"s", "p", "a", "t", "i", "a", "l">> @@
    "summary" :> <<"s", "u", "m", "m", "a", "r", "y">> @@
    "bundle" :> <<"b", "u", "n", "d", "l", "e">> @@
    "sample" :> <<"s", "a", "m", "p", "l", "e">> @@
    "blob" :> <<"b", "l", "o", "b">> @@
    "blo" :> <<"b", "l", "o">> @@
    "spots" :> <<"s", "p", "o", "t", "s">> @@
    "spot" :> <<"s", "p", "o", "t">> @@
    "1e0c" :> <<"1", "e", "0", "c">> @@
    "c41a" :> <<"c", "4", "1", "a">> @@
    "c41" :> <<"c", "4", "1">> @@
    "90fd" :> <<"9", "0", "f", "d">> @@
    "7b52" :> <<"7", "b", "5", "2">> @@
    ".tif" :> <<".", "t", "i", "f">> @@
    ".tar.gz" :> <<".", "t", "a", "r", ".", "g", "z">> @@
    ".tar" :> <<".", "t", "a", "r">> @@
    ".zip" :> <<".", "z", "i", "p">> @@
    ".csv" :> <<".", "c", "s", "v">> @@
    ".TGZ" :> <<".", "T", "G", "Z">> @@
    ".bin" :> <<".", "b", "i", "n">>

Spelled(chars) == CHOOSE s \in DOMAIN Spelling : Spelling[s] = chars

\* str.rstrip(chars) on a string from which the suffix `chars` is already
\* split off: rstrip takes `chars` for a set of characters and goes on
\* removing trailing characters as long as they belong to it
rstrip(s, chars) ==
    LET c == Spelling[s]
        set == { Spelling[chars][i] : i \in 1..Len(Spelling[chars]) }
        keep == { i \in 0..Len(c) : \A j \in (i + 1)..Len(c) : c[j] \in set }
        n == CHOOSE i \in keep : \A j \in keep : i <= j
    IN  Spelled(SubSeq(c, 1, n))

\* self.name.rstrip(self.extention)
stem(file) == rstrip(file.name[1], extention(file))

\* mutant: no protocol is taken for the local one
IsFileScheme_Never(file) == FALSE

\* `self._fs.protocol != ("file", "local")` of is_local_file, negated
IsFileScheme(file) == Scheme(file.uri) = "file"

build_local_filepath(file, local_dir) ==
    IF IsFileScheme(file) THEN file.uri
    ELSE <<"file", local_dir, stem(file), UriMd5(file.uri), extention(file)>>

\* f"{file.uri.rstrip(file.extention)}.md5sum"
Md5sumFilepath(file) ==
    LET n == Len(file.uri)
    IN  SubSeq(file.uri, 1, n - 2)
            \o <<rstrip(file.uri[n - 1], extention(file)), ".md5sum">>

\* Path(head) / "extracted" / tail of the uri without its extension
ExtractDir(file) ==
    LET n == Len(file.uri)
    IN  SubSeq(file.uri, 1, n - 2)
            \o <<"extracted", rstrip(file.uri[n - 1], extention(file))>>

\* mutant: the extraction directory is handed out in place of the file in it
MetadataFilepath_Directory(file) == ExtractDir(file)

\* extract_dir / "extracted_files.json"
MetadataFilepath(file) == ExtractDir(file) \o <<"extracted_files.json">>

Parent(p) == SubSeq(p, 1, Len(p) - 2)

\* ------------------------------------------------------------ extractors
TarExtensions == {".tar", ".tar.gz", ".tgz", ".tar.bz2", ".tbz2", ".tar.xz", ".txz"}

ZipExtensions == {".zip"}

\* tarfile.is_tarfile / zipfile.is_zipfile probe the head of the file
IsTarfile(c) == Len(c) >= 1 /\ c[1] \in {TarMagic, PolyglotMagic}

IsZipfile(c) == Len(c) >= 1 /\ c[1] \in {ZipMagic, PolyglotMagic}

\* str.lower() on the extensions that occur in upper case
Lower(e) == IF e = ".TGZ" THEN ".tgz" ELSE e

\* mutant: every file is taken for a tar archive
get_extractor_AlwaysTar(u, c) == "TarExtractor"

\* mutant: the content is probed before the name is looked at
get_extractor_MagicFirst(u, c) ==
    IF IsTarfile(c) THEN "TarExtractor"
    ELSE IF IsZipfile(c) THEN "ZipExtractor"
    ELSE IF Lower(Ext(u)) \in TarExtensions THEN "TarExtractor"
    ELSE IF Lower(Ext(u)) \in ZipExtensions THEN "ZipExtractor"
    ELSE "NotExtractable"

get_extractor(u, c) ==
    IF Lower(Ext(u)) \in TarExtensions THEN "TarExtractor"
    ELSE IF Lower(Ext(u)) \in ZipExtensions THEN "ZipExtractor"
    ELSE IF IsTarfile(c) THEN "TarExtractor"
    ELSE IF IsZipfile(c) THEN "ZipExtractor"
    ELSE "NotExtractable"

is_extractable_filepath(u, c) == get_extractor(u, c) # "NotExtractable"

\* an archive unpacks only when it is whole
ValidArchive(c) == Len(c) = NumChunks /\ c[1] \in {TarMagic, ZipMagic}
                   /\ \A i \in 2..Len(c) : c[i] \in {PlainByte, UnsafeByte, RevisedByte}

Members == {"m1", "m2"}

Traversal == "../../etc/passwd"

\* tar.getmembers() / zip.infolist(): the names stored in the archive
MemberNames(c) ==
    {"m1"} \cup (IF c[Len(c)] = UnsafeByte THEN {Traversal} ELSE {"m2"})

\* where extractall writes a member: <<directory, file name>>.  tarfile
\* joins the name to the target as it is; zipfile drops the ".." parts
Target(extractor, dir, name) ==
    IF name # Traversal THEN <<dir, name>>
    ELSE IF extractor = "ZipExtractor" THEN <<dir \o <<"etc">>, "passwd">>
    ELSE <<SubSeq(dir, 1, Len(dir) - 2) \o <<"etc">>, "passwd">>

\* ---------------------------------------------------------------- errors
Error(k, x, y) == [kind |-> k, expected |-> x, computed |-> y]

NoErr == Error("none", NoMd5, NoMd5)

\* ======================================================= DownloadManager
Tasks == 1..Len(uris)

Policies == {"always", "never", "missing"}

Running == {"download", "attempt", "writing", "md5", "validate", "extract", "extracting"}

Settled == {"done", "failed", "cancelled"}

\* descriptors a caller can submit: a remote URI with no md5sum, the right
\* md5sum, or an md5sum that is not the digest of what the server sends
WrongMd5 == Md5Hex(<<ZipMagic>>)

Inputs ==
    { DataFile(u, m, <<>>) :
        u \in RemoteUris, m \in {NoMd5, WrongMd5} } \cup
    { DataFile(u, Md5Hex(RemoteContent(u)), <<>>) : u \in RemoteUris } \cup
    { DataFile(u, NoMd5, <<>>) : u \in {StagedFile, AbsentFile} \cup BundleUris }

\* the descriptors of a batch: an archive with the right md5sum, the same
\* archive with a wrong one, and a plain file without md5sum
BatchInputs ==
    { DataFile(u, m, <<>>) :
        u \in {<<"https", "spatial", ".tar.gz">>},
        m \in {WrongMd5, Md5Hex(RemoteContent(<<"https", "spatial", ".tar.gz">>))} } \cup
    { DataFile(<<"https", "summary", ".csv">>, NoMd5, <<>>) }

\* mutant: the exception is caught and the stage is entered again
Fail_Restart(k, e) ==
    /\ pc' = [pc EXCEPT ![k] = "download"]
    /\ err' = err

Fail(k, e) ==
    /\ pc' = [pc EXCEPT ![k] = "failed"]
    /\ err' = [err EXCEPT ![k] = e]

\* where _worker starts
FirstStage(m) == IF m = "visium" THEN "attempt" ELSE "download"

\* mutant: the pool starts a thread for every queued item
IdleWorker_Unbounded == TRUE

\* ThreadPoolExecutor(max_workers=...): fewer than max_workers threads are busy
IdleWorker == Cardinality({j \in Tasks : pc[j] \in Running}) < cfg.max_workers

\* ThreadPoolExecutor: a free worker thread takes the oldest queued item
worker_start(k) ==
    /\ mode # "single"
    /\ pc[k] = "pending"
    /\ \A j \in 1..(k - 1) : pc[j] # "pending"
    /\ IdleWorker
    /\ pc' = [pc EXCEPT ![k] = FirstStage(mode)]
    /\ UNCHANGED <<shut, held, revised, retry, cfg, uris, mode, cur, off, err, mainpc, collected, calls,
                   outs, files, memos, manifests, dirs, unpacked, xfers, nextract>>

\* mutant: a missing local file is reported as "not local"
is_local_file_Lenient(file) ==
    IF ~IsFileScheme(file) \/ ~Exists(files, file.uri) THEN "False" ELSE "True"

\* DataFile.is_local_file: what the call returns, or the exception it raises
is_local_file(file) ==
    IF ~IsFileScheme(file) THEN "False"
    ELSE IF ~Exists(files, file.uri) THEN "FileNotFoundError"
    ELSE "True"

\* mutant: the policy test is dropped
DownloadDisallowed_Ignored == FALSE

\* `if self.download_policy == "never"` of download
DownloadDisallowed == cfg.download_policy = "never"

\* mutant: a cached file is never reused
ReuseCached_Never(save_path) == FALSE

\* `if save_path.is_file() and self.download_policy == "missing"` of download
ReuseCached(save_path) == Exists(files, save_path) /\ cfg.download_policy = "missing"

\* DownloadManager.download up to the two open() calls
download(k) ==
    /\ pc[k] = "download"
    /\ LET file == parse(uris[k])
           save_path == build_local_filepath(file, "downloads")
       IN  IF is_local_file(file) = "FileNotFoundError" THEN
               /\ Fail(k, Error("FileNotFoundError", NoMd5, NoMd5))
               /\ UNCHANGED <<cur, off, files, dirs, xfers>>
           ELSE IF is_local_file(file) = "True" THEN
               /\ pc' = [pc EXCEPT ![k] = "md5"]
               /\ cur' = [cur EXCEPT ![k] = file]
               /\ UNCHANGED <<off, err, files, dirs, xfers>>
           ELSE IF DownloadDisallowed THEN
               /\ Fail(k, Error("DownloadDisallowed", NoMd5, NoMd5))
               /\ UNCHANGED <<cur, off, files, dirs, xfers>>
           ELSE IF ReuseCached(save_path) THEN
               /\ pc' = [pc EXCEPT ![k] = "md5"]
               /\ cur' = [cur EXCEPT ![k] = copy_with_uri(file, save_path)]
               /\ UNCHANGED <<off, err, files, dirs, xfers>>
           ELSE
               /\ dirs' = dirs \cup {Parent(save_path)}
               /\ \/ \* file.fs.open(file.uri) raises
                     /\ Fail(k, Error("FetchError", NoMd5, NoMd5))
                     /\ UNCHANGED <<cur, off, files, xfers>>
                  \/ \* both files open; open(save_path, "wb") truncates
                     /\ pc' = [pc EXCEPT ![k] = "writing"]
                     /\ cur' = [cur EXCEPT ![k] = file]
                     /\ off' = [off EXCEPT ![k] = 0]
                     /\ files' = WriteFile(files, save_path, <<>>)
                     /\ xfers' = [xfers EXCEPT ![k] = @ + 1]
                     /\ UNCHANGED err
    /\ UNCHANGED <<shut, held, revised, retry, cfg, uris, mode, mainpc, collected, calls, outs, memos,
                   manifests, unpacked, nextract>>

\* one turn of `while chunk := fin.read(...)`: fout.write(chunk)
write_chunk(k) ==
    /\ pc[k] = "writing"
    /\ off[k] < Len(RemoteContent(cur[k].uri))
    /\ LET save_path == build_local_filepath(cur[k], "downloads")
       IN  files' = WriteFile(files, save_path,
                WriteAt(files[save_path], off[k], RemoteContent(cur[k].uri)[off[k] + 1]))
    /\ off' = [off EXCEPT ![k] = @ + 1]
    /\ UNCHANGED <<shut, held, revised, retry, cfg, uris, mode, pc, cur, err, mainpc, collected, calls, outs,
                   memos, manifests, dirs, unpacked, xfers, nextract>>

\* fin.read raises (connection lost, interrupt): the exception leaves
\* download with the file as written so far
transfer_error(k) ==
    /\ pc[k] = "writing"
    /\ off[k] < Len(RemoteContent(cur[k].uri))
    /\ Fail(k, Error("FetchError", NoMd5, NoMd5))
    /\ UNCHANGED <<shut, held, revised, retry, cfg, uris, mode, cur, off, mainpc, collected, calls, outs,
                   files, memos, manifests, dirs, unpacked, xfers, nextract>>

\* fin.read returns b"": both files are closed, download returns
download_return(k) ==
    /\ pc[k] = "writing"
    /\ off[k] = Len(RemoteContent(cur[k].uri))
    /\ pc' = [pc EXCEPT ![k] = "md5"]
    /\ cur' = [cur EXCEPT ![k] =
                  copy_with_uri(cur[k], build_local_filepath(cur[k], "downloads"))]
    /\ UNCHANGED <<shut, held, revised, retry, cfg, uris, mode, off, err, mainpc, collected, calls, outs,
                   files, memos, manifests, dirs, unpacked, xfers, nextract>>

\* mutant: the digests are compared whatever validate_checksums says
ChecksumMismatch_Unconditional(file, computed_md5sum) ==
    /\ file.md5sum # NoMd5
    /\ file.md5sum # computed_md5sum

\* mutant: the digests are not compared
ChecksumMismatch_Unchecked(file, computed_md5sum) == FALSE

\* the comparison at the end of compute_md5sum
ChecksumMismatch(file, computed_md5sum) ==
    /\ file.md5sum # NoMd5
    /\ cfg.validate_checksums
    /\ file.md5sum # computed_md5sum

\* mutant: the digest is computed from the file whether a memo exists or not
ComputedMd5sum_Recomputed(file) == Md5Hex(files[file.uri])

\* `if md5sum_filepath.is_file(): ... read_text() else: ... hexdigest()`
ComputedMd5sum(file) ==
    IF Exists(memos, Md5sumFilepath(file)) THEN memos[Md5sumFilepath(file)]
    ELSE Md5Hex(files[file.uri])

compute_md5sum(k) ==
    /\ pc[k] = "md5"
    /\ LET file == cur[k]
           md5sum_filepath == Md5sumFilepath(file)
           computed_md5sum == ComputedMd5sum(file)
       IN  /\ memos' = IF Exists(memos, md5sum_filepath) THEN memos
                       ELSE WriteFile(memos, md5sum_filepath, computed_md5sum)
           /\ IF ChecksumMismatch(file, computed_md5sum) THEN
                  /\ Fail(k, Error("ChecksumMismatch", file.md5sum, computed_md5sum))
                  /\ UNCHANGED cur
              ELSE
                  /\ pc' = [pc EXCEPT ![k] = "extract"]
                  /\ cur' = [cur EXCEPT ![k] = copy_with_md5sum(file, computed_md5sum)]
                  /\ UNCHANGED err
    /\ UNCHANGED <<shut, held, revised, retry, cfg, uris, mode, off, mainpc, collected, calls, outs, files,
                   manifests, dirs, unpacked, xfers, nextract>>

Done(k, file) ==
    /\ pc' = [pc EXCEPT ![k] = "done"]
    /\ cur' = [cur EXCEPT ![k] = file]

\* mutant: an existing manifest is reused under every policy
MustExtract_MissingOnly(metadata_filepath) == ~Exists(manifests, metadata_filepath)

\* `if self.extract_policy == "always" or not metadata_filepath.is_file()`
MustExtract(metadata_filepath) ==
    cfg.extract_policy = "always" \/ ~Exists(manifests, metadata_filepath)

\* DownloadManager.extract up to ExtractorManager.__enter__ and the mkdir
\* of BaseExtractor.extract
extract(k) ==
    /\ pc[k] = "extract"
    /\ LET file == cur[k]
           extract_dir == ExtractDir(file)
           metadata_filepath == MetadataFilepath(file)
       IN  IF cfg.extract_policy = "never" THEN
               /\ Done(k, file)
               /\ UNCHANGED <<err, dirs, nextract>>
           ELSE IF ~is_extractable_filepath(file.uri, files[file.uri]) THEN
               /\ Done(k, file)
               /\ UNCHANGED <<err, dirs, nextract>>
           ELSE IF MustExtract(metadata_filepath) THEN
               IF file.md5sum = NoMd5 THEN
                   /\ Fail(k, Error("MissingMd5sum", NoMd5, NoMd5))
                   /\ UNCHANGED <<cur, dirs, nextract>>
               ELSE
                   /\ pc' = [pc EXCEPT ![k] = "extracting"]
                   /\ dirs' = dirs \cup {extract_dir}
                   /\ nextract' = [nextract EXCEPT ![k] = @ + 1]
                   /\ UNCHANGED <<cur, err>>
           ELSE
               /\ Done(k, copy_with_md5sum(copy_with_uri(file, metadata_filepath), NoMd5))
               /\ UNCHANGED <<err, dirs, nextract>>
    /\ UNCHANGED <<shut, held, revised, retry, cfg, uris, mode, off, mainpc, collected, calls, outs, files,
                   memos, manifests, unpacked, xfers>>

AddMembers(dir, ms) ==
    [d \in (DOMAIN unpacked) \cup {dir} |->
        IF d = dir THEN (IF d \in DOMAIN unpacked THEN unpacked[d] ELSE {}) \cup ms
        ELSE unpacked[d]]

\* mutant: extractall stops after the first member without raising
ExtractAll_FirstOnly(extractor, dir, names) == AddMembers(dir, {"m1"})

\* tar.extractall(extract_dir) / zip.extractall(extract_dir)
ExtractAll(extractor, dir, names) ==
    LET targets == { Target(extractor, dir, n) : n \in names }
    IN  [d \in (DOMAIN unpacked) \cup { t[1] : t \in targets } |->
            (IF d \in DOMAIN unpacked THEN unpacked[d] ELSE {})
                \cup { t[2] : t \in { x \in targets : x[1] = d } }]

\* extractall ran through; the metadata file is written and extract returns
extract_finish(k) ==
    /\ pc[k] = "extracting"
    /\ ValidArchive(files[cur[k].uri])
    /\ LET content == files[cur[k].uri]
       IN  /\ unpacked' = ExtractAll(get_extractor(cur[k].uri, content),
                               ExtractDir(cur[k]), MemberNames(content))
           /\ manifests' = WriteFile(manifests, MetadataFilepath(cur[k]),
                                MemberNames(content))
    /\ Done(k, copy_with_md5sum(copy_with_uri(cur[k], MetadataFilepath(cur[k])), NoMd5))
    /\ UNCHANGED <<shut, held, revised, retry, cfg, uris, mode, off, err, mainpc, collected, calls, outs,
                   files, memos, dirs, xfers, nextract>>

\* extractall raises (unreadable archive, I/O error, a tarfile extraction
\* filter that rejects a member) after some members
extract_error(k) ==
    /\ pc[k] = "extracting"
    /\ \E ms \in {{}, {"m1"}} :
          /\ (ms # {}) => (Len(files[cur[k].uri]) >= 1)
          /\ unpacked' = AddMembers(ExtractDir(cur[k]), ms)
    /\ Fail(k, Error("ExtractionError", NoMd5, NoMd5))
    /\ UNCHANGED <<shut, held, revised, retry, cfg, uris, mode, cur, off, mainpc, collected, calls, outs,
                   files, memos, manifests, dirs, xfers, nextract>>

Outcome(st, val, e) == [status |-> st, value |-> val, error |-> e]

\* the caller's side of download_and_extract: `return _worker(uris)` for a
\* single UriType, else one step of list(self._executor.map(_worker, uris));
\* Executor.map's iterator cancels every future not yet started when a
\* result raises
collect ==
    /\ mainpc = "calling"
    /\ LET k == collected + 1
       IN  /\ k \in Tasks
           /\ pc[k] \in {"done", "failed"}
           /\ IF pc[k] = "failed" THEN
                  /\ mainpc' = "raised"
                  /\ pc' = [j \in Tasks |-> IF pc[j] = "pending" THEN "cancelled" ELSE pc[j]]
                  /\ outs' = Append(outs, Outcome("raised", <<>>, err[k]))
                  /\ UNCHANGED collected
              ELSE
                  /\ collected' = k
                  /\ UNCHANGED pc
                  /\ IF k = Len(uris) THEN
                         /\ mainpc' = "returned"
                         /\ outs' = Append(outs,
                                Outcome("returned", [j \in Tasks |-> cur[j]], NoErr))
                     ELSE UNCHANGED <<mainpc, outs>>
    /\ UNCHANGED <<shut, held, revised, retry, cfg, uris, mode, cur, off, err, calls, files, memos, manifests,
                   dirs, unpacked, xfers, nextract>>

FirstPc(m) == IF m = "single" THEN "download" ELSE "pending"

NoneCollected(m) == IF m = "visium" THEN {} ELSE 0

\* the caller calls download_and_extract again with the same argument once
\* the previous call is over and its workers are idle
call_again ==
    /\ mainpc \in {"returned", "raised"}
    /\ \A k \in Tasks : pc[k] \in Settled
    /\ calls < MaxCalls
    /\ calls' = calls + 1
    /\ mainpc' = "calling"
    /\ collected' = NoneCollected(mode)
    /\ pc' = [k \in Tasks |-> FirstPc(mode)]
    /\ cur' = [k \in Tasks |-> NoData]
    /\ off' = [k \in Tasks |-> 0]
    /\ err' = [k \in Tasks |-> NoErr]
    /\ retry' = [k \in Tasks |-> 0]
    /\ UNCHANGED <<shut, held, revised, cfg, uris, mode, outs, files, memos, manifests, dirs, unpacked,
                   xfers, nextract>>

Configs ==
    [download_policy : Policies, extract_policy : Policies,
     validate_checksums : BOOLEAN, max_workers : 1..MaxBatch]

\* every remote resource is in its first edition
InitRemote == revised = {}

\* a manager fresh from __post_init__, no with statement entered
InitUnmanaged == held = {} /\ shut = FALSE

InitFilesystem ==
    /\ files = (StagedFile :> StagedContent)
    /\ memos = <<>>
    /\ manifests = <<>>
    /\ dirs = {}
    /\ unpacked = <<>>

InitCall ==
    /\ pc = [k \in Tasks |-> FirstPc(mode)]
    /\ cur = [k \in Tasks |-> NoData]
    /\ off = [k \in Tasks |-> 0]
    /\ err = [k \in Tasks |-> NoErr]
    /\ mainpc = "calling"
    /\ collected = NoneCollected(mode)
    /\ retry = [k \in Tasks |-> 0]
    /\ calls = 1
    /\ outs = <<>>
    /\ xfers = [k \in Tasks |-> 0]
    /\ nextract = [k \in Tasks |-> 0]

\* a manager on an empty data_dir, called with one UriType
InitDM ==
    /\ InitRemote
    /\ InitUnmanaged
    /\ cfg \in Configs
    /\ cfg.max_workers = 1
    /\ mode = "single"
    /\ uris \in [1..1 -> Inputs]
    /\ InitFilesystem
    /\ InitCall

\* a manager on an empty data_dir, called with a sequence of UriType
InitBatch ==
    /\ InitRemote
    /\ InitUnmanaged
    /\ cfg \in Configs
    /\ mode = "batch"
    /\ uris \in UNION { [1..n -> BatchInputs] : n \in 1..MaxBatch }
    /\ InitFilesystem
    /\ InitCall

NextDM ==
    \/ \E k \in Tasks : download(k)
    \/ \E k \in Tasks : write_chunk(k)
    \/ \E k \in Tasks : transfer_error(k)
    \/ \E k \in Tasks : download_return(k)
    \/ \E k \in Tasks : compute_md5sum(k)
    \/ \E k \in Tasks : extract(k)
    \/ \E k \in Tasks : extract_finish(k)
    \/ \E k \in Tasks : extract_error(k)
    \/ collect
    \/ call_again

NextBatch ==
    \/ \E k \in Tasks : worker_start(k)
    \/ \E k \in Tasks : download(k)
    \/ \E k \in Tasks : write_chunk(k)
    \/ \E k \in Tasks : transfer_error(k)
    \/ \E k \in Tasks : download_return(k)
    \/ \E k \in Tasks : compute_md5sum(k)
    \/ \E k \in Tasks : extract(k)
    \/ \E k \in Tasks : extract_finish(k)
    \/ \E k \in Tasks : extract_error(k)
    \/ collect

SpecDM == InitDM /\ [][NextDM]_vars

SpecBatch == InitBatch /\ [][NextBatch]_vars

\* ------------------------------------------------- managers over time
\* between two calls the caller builds another DownloadManager over the same
\* data_dir with other policies (the dataclass fields, or settings.py read
\* from another environment)
reconfigure ==
    /\ mainpc \in {"returned", "raised"}
    /\ calls < MaxCalls
    /\ \E c \in Configs :
          /\ c.max_workers = cfg.max_workers
          /\ c # cfg
          /\ cfg' = c
    /\ UNCHANGED <<shut, held, revised, retry, uris, mode, pc, cur, off, err, mainpc, collected, calls, outs,
                   files, memos, manifests, dirs, unpacked, xfers, nextract>>

\* between two calls the publisher replaces the resource behind a URI
republish ==
    /\ mainpc \in {"returned", "raised"}
    /\ calls < MaxCalls
    /\ \E k \in Tasks :
          /\ uris[k].uri \in RemoteUris \ revised
          /\ revised' = revised \cup {uris[k].uri}
    /\ UNCHANGED <<shut, held, retry, cfg, uris, mode, pc, cur, off, err, mainpc, collected, calls,
                   outs, files, memos, manifests, dirs, unpacked, xfers, nextract>>

NextRerun ==
    \/ \E k \in Tasks : download(k)
    \/ \E k \in Tasks : write_chunk(k)
    \/ \E k \in Tasks : transfer_error(k)
    \/ \E k \in Tasks : download_return(k)
    \/ \E k \in Tasks : compute_md5sum(k)
    \/ \E k \in Tasks : extract(k)
    \/ \E k \in Tasks : extract_finish(k)
    \/ \E k \in Tasks : extract_error(k)
    \/ collect
    \/ call_again
    \/ reconfigure
    \/ republish

\* one UriType, called repeatedly by managers whose policies may differ,
\* while the remote side may change
SpecRerun == InitDM /\ [][NextRerun]_vars

\* ============================================== download_visium_datasets
\* st_visium_datasets DataFile: url, md5sum (required), size
VisiumFile(u, m) == [url |-> u, md5sum |-> m]

VisiumInputs ==
    { VisiumFile(u, m) : u \in RemoteUris, m \in {WrongMd5} } \cup
    { VisiumFile(u, Md5Hex(RemoteContent(u))) : u \in RemoteUris }

\* max_retries: int = 3
DefaultMaxRetries == 3

\* ThreadPoolExecutor(): max_workers = min(32, cpu_count + 4), at least 5
DefaultMaxWorkers == 5

VisiumConfigs ==
    [force_download : BOOLEAN, force_extract : BOOLEAN,
     max_retries : 0..DefaultMaxRetries, max_workers : {DefaultMaxWorkers}]

\* download_dir / f"{file.md5sum}{ext}"
VisiumSavePath(file) == <<"file", "visium", ToString(file.md5sum), Ext(file.url)>>

\* filepath.with_suffix(".md5sum") replaces the last suffix only
with_suffix_md5sum(filepath) ==
    [filepath EXCEPT ![Len(filepath)] =
        IF Ext(filepath) = ".tar.gz" THEN ".tar.md5sum" ELSE ".md5sum"]

\* remove_suffix(str(filepath), ".tar.gz")
VisiumExtractDir(filepath) == [filepath EXCEPT ![Len(filepath)] = ""]

\* mutant: the loop runs once more than the budget
RetriesLeft_OneMore(k) == retry[k] <= cfg.max_retries

\* `while i < max_retries`
RetriesLeft(k) == retry[k] < cfg.max_retries

\* mutant: a retry honours the caller's force_download only
ForceDownload_CallerOnly(k) == cfg.force_download

\* `_force_download = force_download or i > 0`
ForceDownload(k) == cfg.force_download \/ retry[k] > 0

\* one turn of the while loop of _download_and_extract_file, into
\* _download_file up to its two open() calls; past the loop, the raise
_download_and_extract_file(k) ==
    /\ mode = "visium"
    /\ pc[k] = "attempt"
    /\ LET save_path == VisiumSavePath(uris[k])
       IN  IF ~RetriesLeft(k) THEN
               /\ Fail(k, Error("RuntimeError", NoMd5, NoMd5))
               /\ UNCHANGED <<off, files, xfers>>
           ELSE IF ForceDownload(k) \/ ~Exists(files, save_path) THEN
               \/ \* fsspec.open(file.url) raises: nothing catches it
                  /\ Fail(k, Error("FetchError", NoMd5, NoMd5))
                  /\ UNCHANGED <<off, files, xfers>>
               \/ \* open(save_path, "wb") truncates
                  /\ pc' = [pc EXCEPT ![k] = "writing"]
                  /\ off' = [off EXCEPT ![k] = 0]
                  /\ files' = WriteFile(files, save_path, <<>>)
                  /\ xfers' = [xfers EXCEPT ![k] = @ + 1]
                  /\ UNCHANGED err
           ELSE
               /\ pc' = [pc EXCEPT ![k] = "validate"]
               /\ UNCHANGED <<off, err, files, xfers>>
    /\ UNCHANGED <<shut, held, revised, retry, cfg, uris, mode, cur, mainpc, collected, calls, outs,
                   memos, manifests, dirs, unpacked, nextract>>

\* `while chunk := src.read(buffer_size)` of _download_file: one write, or
\* on b"" the files are closed and _validate_md5sum is entered
_download_file(k) ==
    /\ mode = "visium"
    /\ pc[k] = "writing"
    /\ LET save_path == VisiumSavePath(uris[k])
           content == RemoteContent(uris[k].url)
       IN  IF off[k] < Len(content) THEN
               /\ files' = WriteFile(files, save_path,
                              WriteAt(files[save_path], off[k], content[off[k] + 1]))
               /\ off' = [off EXCEPT ![k] = @ + 1]
               /\ UNCHANGED pc
           ELSE
               /\ pc' = [pc EXCEPT ![k] = "validate"]
               /\ UNCHANGED <<files, off>>
    /\ UNCHANGED <<shut, held, revised, retry, cfg, uris, mode, cur, err, mainpc, collected, calls, outs,
                   memos, manifests, dirs, unpacked, xfers, nextract>>

\* src.read raises inside _download_file: the exception leaves the worker
_download_file_error(k) ==
    /\ mode = "visium"
    /\ pc[k] = "writing"
    /\ off[k] < Len(RemoteContent(uris[k].url))
    /\ Fail(k, Error("FetchError", NoMd5, NoMd5))
    /\ UNCHANGED <<shut, held, revised, retry, cfg, uris, mode, cur, off, mainpc, collected, calls, outs,
                   files, memos, manifests, dirs, unpacked, xfers, nextract>>

\* mutant: the digest is taken from the name of the cache file
VisiumComputedMd5sum_FromName(filepath) ==
    CHOOSE m \in { f.md5sum : f \in VisiumInputs } : ToString(m) = filepath[3]

\* mutant: the digest is computed from the file whether a memo exists or not
VisiumComputedMd5sum_Recomputed(filepath) == Md5Hex(files[filepath])

\* `if md5sum_path.is_file(): ... read_text().strip() else: ... hexdigest()`
\* of _validate_md5sum
VisiumComputedMd5sum(filepath) ==
    IF Exists(memos, with_suffix_md5sum(filepath))
    THEN memos[with_suffix_md5sum(filepath)]
    ELSE Md5Hex(files[filepath])

\* _validate_md5sum and the end of the loop body: break, or i += 1
_validate_md5sum(k) ==
    /\ pc[k] = "validate"
    /\ LET file == uris[k]
           filepath == VisiumSavePath(file)
           md5sum_path == with_suffix_md5sum(filepath)
           computed_md5sum == VisiumComputedMd5sum(filepath)
       IN  /\ memos' = IF Exists(memos, md5sum_path) THEN memos
                       ELSE WriteFile(memos, md5sum_path, computed_md5sum)
           /\ IF computed_md5sum = file.md5sum THEN
                  /\ pc' = [pc EXCEPT ![k] = "extract"]
                  /\ cur' = [cur EXCEPT ![k] = filepath]
                  /\ UNCHANGED retry
              ELSE
                  /\ pc' = [pc EXCEPT ![k] = "attempt"]
                  /\ retry' = [retry EXCEPT ![k] = @ + 1]
                  /\ UNCHANGED cur
    /\ UNCHANGED <<shut, held, revised, cfg, uris, mode, off, err, mainpc, collected, calls, outs, files,
                   manifests, dirs, unpacked, xfers, nextract>>

IsNonEmptyDir(d) == d \in dirs /\ d \in DOMAIN unpacked /\ unpacked[d] # {}

\* _extract_file up to tarfile.open
_extract_file(k) ==
    /\ mode = "visium"
    /\ pc[k] = "extract"
    /\ LET filepath == cur[k]
           extract_dir == VisiumExtractDir(filepath)
       IN  IF Ext(filepath) # ".tar.gz" THEN
               /\ pc' = [pc EXCEPT ![k] = "done"]
               /\ UNCHANGED <<cur, dirs, nextract>>
           ELSE IF IsNonEmptyDir(extract_dir) /\ ~cfg.force_extract THEN
               /\ Done(k, extract_dir)
               /\ UNCHANGED <<dirs, nextract>>
           ELSE
               /\ pc' = [pc EXCEPT ![k] = "extracting"]
               /\ dirs' = dirs \cup {extract_dir}
               /\ nextract' = [nextract EXCEPT ![k] = @ + 1]
               /\ UNCHANGED cur
    /\ UNCHANGED <<shut, held, revised, retry, cfg, uris, mode, off, err, mainpc, collected, calls, outs,
                   files, memos, manifests, unpacked, xfers>>

\* tar.extractall(extract_dir) ran through
_extract_file_return(k) ==
    /\ mode = "visium"
    /\ pc[k] = "extracting"
    /\ ValidArchive(files[cur[k]])
    /\ unpacked' = AddMembers(VisiumExtractDir(cur[k]), Members)
    /\ Done(k, VisiumExtractDir(cur[k]))
    /\ UNCHANGED <<shut, held, revised, retry, cfg, uris, mode, off, err, mainpc, collected, calls, outs,
                   files, memos, manifests, dirs, xfers, nextract>>

\* tarfile.open or extractall raises after some members
_extract_file_error(k) ==
    /\ mode = "visium"
    /\ pc[k] = "extracting"
    /\ \E ms \in {{}, {"m1"}} :
          /\ (ms # {}) => (Len(files[cur[k]]) >= 1)
          /\ unpacked' = AddMembers(VisiumExtractDir(cur[k]), ms)
    /\ Fail(k, Error("ExtractionError", NoMd5, NoMd5))
    /\ UNCHANGED <<shut, held, revised, retry, cfg, uris, mode, cur, off, mainpc, collected, calls, outs,
                   files, memos, manifests, dirs, xfers, nextract>>

\* `for future in as_completed(futures)`: future.result() of a finished
\* worker is stored, or raises out of both `with` blocks
as_completed(k) ==
    /\ mode = "visium"
    /\ mainpc = "calling"
    /\ k \notin collected
    /\ pc[k] \in {"done", "failed"}
    /\ IF pc[k] = "failed" THEN
           /\ mainpc' = "raised"
           /\ outs' = Append(outs, Outcome("raised", <<>>, err[k]))
           /\ UNCHANGED collected
       ELSE
           /\ collected' = collected \cup {k}
           /\ IF collected' = Tasks THEN
                  /\ mainpc' = "returned"
                  /\ outs' = Append(outs,
                         Outcome("returned", [j \in Tasks |-> cur[j]], NoErr))
              ELSE UNCHANGED <<mainpc, outs>>
    /\ UNCHANGED <<shut, held, revised, retry, cfg, uris, mode, pc, cur, off, err, calls, files, memos,
                   manifests, dirs, unpacked, xfers, nextract>>

\* download_visium_datasets on an empty download_dir, `datasets` holding
\* one file
InitVD ==
    /\ InitRemote
    /\ InitUnmanaged
    /\ cfg \in VisiumConfigs
    /\ mode = "visium"
    /\ uris \in [1..1 -> VisiumInputs]
    /\ files = <<>>
    /\ memos = <<>>
    /\ manifests = <<>>
    /\ dirs = {<<"file", "visium">>}
    /\ unpacked = <<>>
    /\ InitCall

NextVD ==
    \/ \E k \in Tasks : worker_start(k)
    \/ \E k \in Tasks : _download_and_extract_file(k)
    \/ \E k \in Tasks : _download_file(k)
    \/ \E k \in Tasks : _download_file_error(k)
    \/ \E k \in Tasks : _validate_md5sum(k)
    \/ \E k \in Tasks : _extract_file(k)
    \/ \E k \in Tasks : _extract_file_return(k)
    \/ \E k \in Tasks : _extract_file_error(k)
    \/ \E k \in Tasks : as_completed(k)
    \/ call_again

SpecVD == InitVD /\ [][NextVD]_vars

\* =========================================== st_visium DataFile.download
\* In mode "datafile" uris[k] holds the validated fields of the caller's
\* DataFile object and cur[k] its private attribute _local_path.
NoPath == <<>>

\* settings.DOWNLOAD_DIR / self.filename, filename = url.path/md5sum + extention
LocalFilepath(file) ==
    <<"file", "downloads", file.url[2], Ext(file.url), ToString(file.md5sum),
      Ext(file.url)>>

\* DataFile.download up to the two open() calls
DataFile_download(k) ==
    /\ mode = "datafile"
    /\ pc[k] = "download"
    /\ LET local_filepath == LocalFilepath(uris[k])
       IN  IF cfg.OVERWRITE_CACHE \/ ~Exists(files, local_filepath) THEN
               /\ dirs' = dirs \cup {Parent(local_filepath)}
               /\ \/ \* self.fs.open(self.url) raises
                     /\ Fail(k, Error("FetchError", NoMd5, NoMd5))
                     /\ UNCHANGED <<cur, off, files, xfers>>
                  \/ \* open(local_filepath, "wb") truncates
                     /\ pc' = [pc EXCEPT ![k] = "writing"]
                     /\ off' = [off EXCEPT ![k] = 0]
                     /\ files' = WriteFile(files, local_filepath, <<>>)
                     /\ xfers' = [xfers EXCEPT ![k] = @ + 1]
                     /\ UNCHANGED <<cur, err>>
           ELSE
               \* self._local_path = local_filepath; return self
               /\ pc' = [pc EXCEPT ![k] = "done"]
               /\ cur' = [cur EXCEPT ![k] = local_filepath]
               /\ UNCHANGED <<off, err, files, dirs, xfers>>
    /\ UNCHANGED <<shut, held, revised, retry, cfg, uris, mode, mainpc, collected, calls, outs,
                   memos, manifests, unpacked, nextract>>

\* one turn of `while chunk := fin.read(buffer_size)`
DataFile_write(k) ==
    /\ mode = "datafile"
    /\ pc[k] = "writing"
    /\ off[k] < Len(RemoteContent(uris[k].url))
    /\ files' = WriteFile(files, LocalFilepath(uris[k]),
            WriteAt(files[LocalFilepath(uris[k])], off[k],
                    RemoteContent(uris[k].url)[off[k] + 1]))
    /\ off' = [off EXCEPT ![k] = @ + 1]
    /\ UNCHANGED <<shut, held, revised, retry, cfg, uris, mode, pc, cur, err, mainpc, collected,
                   calls, outs, memos, manifests, dirs, unpacked, xfers, nextract>>

\* fin.read raises: download is left with the file as written so far
DataFile_read_error(k) ==
    /\ mode = "datafile"
    /\ pc[k] = "writing"
    /\ off[k] < Len(RemoteContent(uris[k].url))
    /\ Fail(k, Error("FetchError", NoMd5, NoMd5))
    /\ UNCHANGED <<shut, held, revised, retry, cfg, uris, mode, cur, off, mainpc, collected, calls,
                   outs, files, memos, manifests, dirs, unpacked, xfers, nextract>>

\* the transfer is over: the digest of what was read is compared, then
\* self._local_path is assigned and self returned
DataFile_validate(k) ==
    /\ mode = "datafile"
    /\ pc[k] = "writing"
    /\ off[k] = Len(RemoteContent(uris[k].url))
    /\ LET md5sum == Md5Hex(RemoteContent(uris[k].url))
       IN  IF md5sum # uris[k].md5sum THEN
               /\ Fail(k, Error("ChecksumMismatch", uris[k].md5sum, md5sum))
               /\ UNCHANGED cur
           ELSE
               /\ pc' = [pc EXCEPT ![k] = "done"]
               /\ cur' = [cur EXCEPT ![k] = LocalFilepath(uris[k])]
               /\ UNCHANGED err
    /\ UNCHANGED <<shut, held, revised, retry, cfg, uris, mode, off, mainpc, collected, calls, outs,
                   files, memos, manifests, dirs, unpacked, xfers, nextract>>

\* the caller calls download() on the same object again
DataFile_download_again(k) ==
    /\ mode = "datafile"
    /\ pc[k] \in {"done", "failed"}
    /\ calls < MaxCalls
    /\ calls' = calls + 1
    /\ outs' = Append(outs, Outcome(pc[k], cur[k], err[k]))
    /\ pc' = [pc EXCEPT ![k] = "download"]
    /\ err' = [err EXCEPT ![k] = NoErr]
    /\ UNCHANGED <<shut, held, revised, retry, cfg, uris, mode, cur, off, mainpc, collected, files,
                   memos, manifests, dirs, unpacked, xfers, nextract>>

\* a DataFile fresh from validation, nothing downloaded yet
InitDF ==
    /\ InitRemote
    /\ InitUnmanaged
    /\ cfg \in [OVERWRITE_CACHE : BOOLEAN]
    /\ mode = "datafile"
    /\ uris \in [1..1 -> VisiumInputs]
    /\ files = <<>>
    /\ memos = <<>>
    /\ manifests = <<>>
    /\ dirs = {}
    /\ unpacked = <<>>
    /\ pc = [k \in Tasks |-> "download"]
    /\ cur = [k \in Tasks |-> NoPath]
    /\ off = [k \in Tasks |-> 0]
    /\ err = [k \in Tasks |-> NoErr]
    /\ mainpc = "calling"
    /\ collected = 0
    /\ retry = [k \in Tasks |-> 0]
    /\ calls = 1
    /\ outs = <<>>
    /\ xfers = [k \in Tasks |-> 0]
    /\ nextract = [k \in Tasks |-> 0]

NextDF ==
    \/ \E k \in Tasks : DataFile_download(k)
    \/ \E k \in Tasks : DataFile_write(k)
    \/ \E k \in Tasks : DataFile_read_error(k)
    \/ \E k \in Tasks : DataFile_validate(k)
    \/ \E k \in Tasks : DataFile_download_again(k)

SpecDF == InitDF /\ [][NextDF]_vars

\* ================================================= functions on one item
\* In mode "fn" uris[k] is an item as a caller may hand it over, with the
\* Python type it has; one function is applied to it and its result kept
\* in cur[k] (a descriptor), err[k] (an exception) or outs (a value).
Item(t, u, m) == [type |-> t, uri |-> u, md5sum |-> m, name |-> <<>>]

\* UriType = Union[str, Path, dict[str, str], DataFile]
UriTypes == {"str", "Path", "dict", "DataFile"}

\* the protocols fsspec.core.url_to_fs finds a filesystem for
KnownProtocols == {"file", "local", "http", "https"}

\* local paths of every name the extractors tell apart
DetectExtensions == {".tar.gz", ".TGZ", ".zip", ".csv"}

LocalPaths == { <<"file", "staged", "sample", e>> : e \in DetectExtensions }

\* two files of one directory, as a caller stages them
SiblingPaths == { <<"file", "staged", "spots", ".csv">>, <<"file", "staged", "spot", ".csv">> }

\* what such a file may hold
DetectContents ==
    { <<>> } \cup
    { [i \in 1..NumChunks |-> IF i = 1 THEN b ELSE PlainByte] :
        b \in {TarMagic, ZipMagic, PolyglotMagic, PlainByte} }

\* an md5sum as a dataset file list gives it
SomeMd5 == Md5Hex(<<PlainByte>>)

FnInputs ==
    { Item(t, u, m) :
        t \in {"str", "dict", "DataFile"},
        u \in LocalPaths \cup SiblingPaths \cup RemoteUris,
        m \in {NoMd5, SomeMd5} }
        \cup { Item("str", <<"foo", "blob", ".bin">>, NoMd5),
               Item("int", <<>>, NoMd5) }

\* DataFile.parse raises: the item is no UriType, or DataFile.__post_init__
\* finds no filesystem for the protocol of the uri
parse_raises(item) ==
    \/ item.type \notin UriTypes
    \/ item.type # "DataFile" /\ Scheme(item.uri) \notin KnownProtocols

\* DataFile.parse(item)
DataFile_parse(k) ==
    /\ mode = "fn"
    /\ pc[k] = "call"
    /\ IF parse_raises(uris[k]) THEN
           /\ Fail(k, Error("InvalidResource", NoMd5, NoMd5))
           /\ UNCHANGED cur
       ELSE
           /\ pc' = [pc EXCEPT ![k] = "parsed"]
           /\ cur' = [cur EXCEPT ![k] = parse(uris[k])]
           /\ UNCHANGED err
    /\ UNCHANGED <<shut, held, revised, retry, cfg, uris, mode, off, mainpc, collected, calls, outs,
                   files, memos, manifests, dirs, unpacked, xfers, nextract>>

\* ExtractorManager(item).__enter__(): __init__ parses and checks the item,
\* __enter__ opens the file and keeps the class get_extractor returns
ExtractorManager_enter(k) ==
    /\ mode = "fn"
    /\ pc[k] = "call"
    /\ IF parse_raises(uris[k]) THEN
           /\ Fail(k, Error("InvalidResource", NoMd5, NoMd5))
           /\ UNCHANGED <<cur, outs>>
       ELSE IF is_local_file(parse(uris[k])) = "FileNotFoundError" THEN
           /\ Fail(k, Error("FileNotFoundError", NoMd5, NoMd5))
           /\ UNCHANGED <<cur, outs>>
       ELSE IF is_local_file(parse(uris[k])) = "False" THEN
           /\ Fail(k, Error("NotLocal", NoMd5, NoMd5))
           /\ UNCHANGED <<cur, outs>>
       ELSE IF parse(uris[k]).md5sum = NoMd5 THEN
           /\ Fail(k, Error("MissingMd5sum", NoMd5, NoMd5))
           /\ UNCHANGED <<cur, outs>>
       ELSE
           /\ pc' = [pc EXCEPT ![k] = "detected"]
           /\ cur' = [cur EXCEPT ![k] = parse(uris[k])]
           /\ outs' = Append(outs,
                  Outcome("returned", get_extractor(uris[k].uri, files[uris[k].uri]), NoErr))
           /\ UNCHANGED err
    /\ UNCHANGED <<shut, held, revised, retry, cfg, uris, mode, off, mainpc, collected, calls, files,
                   memos, manifests, dirs, unpacked, xfers, nextract>>

\* file.build_local_filepath(download_dir) on a parsed descriptor: the call
\* of self.is_local_file() looks on the disk and raises for a local path
\* where no file is
DataFile_build_local_filepath(k) ==
    /\ mode = "fn"
    /\ pc[k] = "parsed"
    /\ IF is_local_file(cur[k]) = "FileNotFoundError" THEN
           /\ Fail(k, Error("FileNotFoundError", NoMd5, NoMd5))
           /\ UNCHANGED outs
       ELSE
           /\ pc' = [pc EXCEPT ![k] = "built"]
           /\ outs' = Append(outs,
                  Outcome("returned", build_local_filepath(cur[k], "downloads"), NoErr))
           /\ UNCHANGED err
    /\ UNCHANGED <<shut, held, revised, retry, cfg, uris, mode, cur, off, mainpc, collected, calls,
                   files, memos, manifests, dirs, unpacked, xfers, nextract>>

\* manager.compute_md5sum(file) on a parsed descriptor
DownloadManager_compute_md5sum(k) ==
    /\ mode = "fn"
    /\ pc[k] = "parsed"
    /\ LET file == cur[k]
           md5sum_filepath == Md5sumFilepath(file)
           computed_md5sum == ComputedMd5sum(file)
       IN  IF is_local_file(file) = "FileNotFoundError" THEN
               /\ Fail(k, Error("FileNotFoundError", NoMd5, NoMd5))
               /\ UNCHANGED <<cur, memos>>
           ELSE IF is_local_file(file) = "False" THEN
               /\ Fail(k, Error("NotLocal", NoMd5, NoMd5))
               /\ UNCHANGED <<cur, memos>>
           ELSE
               /\ memos' = IF Exists(memos, md5sum_filepath) THEN memos
                           ELSE WriteFile(memos, md5sum_filepath, computed_md5sum)
               /\ IF ChecksumMismatch(file, computed_md5sum) THEN
                      /\ Fail(k, Error("ChecksumMismatch", file.md5sum, computed_md5sum))
                      /\ UNCHANGED cur
                  ELSE
                      /\ pc' = [pc EXCEPT ![k] = "summed"]
                      /\ cur' = [cur EXCEPT ![k] = copy_with_md5sum(file, computed_md5sum)]
                      /\ UNCHANGED err
    /\ UNCHANGED <<shut, held, revised, retry, cfg, uris, mode, off, mainpc, collected, calls, outs,
                   files, manifests, dirs, unpacked, xfers, nextract>>

\* iterating a dict yields its keys
Keys(item) == IF item.md5sum = NoMd5 THEN <<"uri">> ELSE <<"uri", "md5sum">>

\* `isinstance(uris, (str, Path, DataFile))` of download_and_extract
RunInline(item) == item.type \in {"str", "Path", "DataFile"}

\* download_and_extract(item) up to the calls of _worker: the shape of the
\* value it is going to return and the arguments _worker gets
download_and_extract_dispatch(k) ==
    /\ mode = "fn"
    /\ pc[k] = "call"
    /\ pc' = [pc EXCEPT ![k] = "dispatched"]
    /\ outs' = Append(outs,
           IF RunInline(uris[k]) THEN Outcome("single", <<uris[k]>>, NoErr)
           ELSE Outcome("list", Keys(uris[k]), NoErr))
    /\ UNCHANGED <<shut, held, revised, retry, cfg, uris, mode, cur, off, err, mainpc, collected,
                   calls, files, memos, manifests, dirs, unpacked, xfers, nextract>>

\* one item, and a disk where a local path names a file or nothing
InitFn ==
    /\ InitRemote
    /\ InitUnmanaged
    /\ cfg \in Configs
    /\ cfg.max_workers = 1 /\ cfg.validate_checksums
    /\ cfg.download_policy = "missing" /\ cfg.extract_policy = "missing"
    /\ mode = "fn"
    /\ uris \in [1..1 -> FnInputs]
    /\ \/ files = <<>>
       \/ /\ uris[1].uri \in LocalPaths \cup SiblingPaths
          /\ \E c \in DetectContents : files = (uris[1].uri :> c)
    /\ memos = <<>>
    /\ manifests = <<>>
    /\ dirs = {}
    /\ unpacked = <<>>
    /\ pc = [k \in Tasks |-> "call"]
    /\ cur = [k \in Tasks |-> NoData]
    /\ off = [k \in Tasks |-> 0]
    /\ err = [k \in Tasks |-> NoErr]
    /\ mainpc = "calling"
    /\ collected = 0
    /\ retry = [k \in Tasks |-> 0]
    /\ calls = 1
    /\ outs = <<>>
    /\ xfers = [k \in Tasks |-> 0]
    /\ nextract = [k \in Tasks |-> 0]

NextFn ==
    \/ \E k \in Tasks : DataFile_parse(k)
    \/ \E k \in Tasks : ExtractorManager_enter(k)
    \/ \E k \in Tasks : DataFile_build_local_filepath(k)
    \/ \E k \in Tasks : DownloadManager_compute_md5sum(k)
    \/ \E k \in Tasks : download_and_extract_dispatch(k)

SpecFn == InitFn /\ [][NextFn]_vars

\* ------------------------------------------- the manager as a context
\* `with DownloadManager() as manager: manager.download_and_extract(urls)`
\* (the __main__ block of download_manager.py; `with self._dl_manager:` of
\* VisiumDatasetBuilder.download), the argument one UriType or a sequence
\* of one item

\* DownloadManager.__enter__: self._progress.__enter__(), then
\* self._executor.__enter__()
DownloadManager_enter ==
    /\ mainpc = "entering"
    /\ mainpc' = "entered"
    /\ held' = {"progress", "executor"}
    /\ UNCHANGED <<shut, revised, retry, cfg, uris, mode, pc, cur, off, err, collected, calls, outs,
                   files, memos, manifests, dirs, unpacked, xfers, nextract>>

\* mutant: submit does not look at the shutdown flag
SubmitRefused_Never == FALSE

\* ThreadPoolExecutor.submit on a pool that was shut down raises
\* RuntimeError; only a sequence goes through self._executor.map
SubmitRefused == mode = "batch" /\ shut

\* the body of the with statement calls download_and_extract: a single
\* UriType is run inline, for a sequence self._executor.map submits every
\* item before it yields a result
with_body_call ==
    /\ mainpc = "entered"
    /\ IF SubmitRefused THEN
           /\ mainpc' = "raised"
           /\ outs' = Append(outs,
                  Outcome("raised", <<>>, Error("RuntimeError", NoMd5, NoMd5)))
           /\ UNCHANGED pc
       ELSE
           /\ mainpc' = "calling"
           /\ pc' = [k \in Tasks |-> FirstPc(mode)]
           /\ UNCHANGED outs
    /\ UNCHANGED <<shut, held, revised, retry, cfg, uris, mode, cur, off, err, collected, calls,
                   files, memos, manifests, dirs, unpacked, xfers, nextract>>

\* the caller enters `with manager:` once more on the same manager, as
\* VisiumDatasetBuilder.download does on every call
with_again ==
    /\ mainpc \in {"exited", "exit_raised"}
    /\ \A k \in Tasks : pc[k] \in Settled \cup {"unsubmitted"}
    /\ calls < MaxCalls
    /\ calls' = calls + 1
    /\ mainpc' = "entering"
    /\ collected' = NoneCollected(mode)
    /\ pc' = [k \in Tasks |-> "unsubmitted"]
    /\ cur' = [k \in Tasks |-> NoData]
    /\ off' = [k \in Tasks |-> 0]
    /\ err' = [k \in Tasks |-> NoErr]
    /\ retry' = [k \in Tasks |-> 0]
    /\ UNCHANGED <<shut, held, revised, cfg, uris, mode, outs, files, memos, manifests, dirs,
                   unpacked, xfers, nextract>>

\* KeyboardInterrupt in the main thread while list(...) waits for a result:
\* the result iterator cancels the futures not yet started, the running
\* workers go on
interrupt ==
    /\ mode = "batch"
    /\ mainpc = "calling"
    /\ mainpc' = "raised"
    /\ pc' = [j \in Tasks |-> IF pc[j] = "pending" THEN "cancelled" ELSE pc[j]]
    /\ outs' = Append(outs, Outcome("raised", <<>>, Error("KeyboardInterrupt", NoMd5, NoMd5)))
    /\ UNCHANGED <<shut, held, revised, retry, cfg, uris, mode, cur, off, err, collected, calls,
                   files, memos, manifests, dirs, unpacked, xfers, nextract>>

\* DownloadManager.__exit__, first statement: self._progress.__exit__(...)
\* stops the live display; when it raises (the console stream is closed, an
\* interrupt arrives) the exception leaves __exit__ at once, the display
\* stopped or not
DownloadManager_exit ==
    /\ mainpc \in {"returned", "raised"}
    /\ \/ /\ mainpc' = "shutdown"
          /\ held' = held \ {"progress"}
       \/ /\ mainpc' = "exit_raised"
          /\ held' \in {held, held \ {"progress"}}
    /\ UNCHANGED <<shut, revised, retry, cfg, uris, mode, pc, cur, off, err, collected, calls, outs,
                   files, memos, manifests, dirs, unpacked, xfers, nextract>>

\* DownloadManager.__exit__, second statement: self._executor.__exit__(...)
\* is shutdown(wait=True), which returns when every worker thread has ended
executor_exit ==
    /\ mainpc = "shutdown"
    /\ \A k \in Tasks : pc[k] \in Settled
    /\ mainpc' = "exited"
    /\ held' = held \ {"executor"}
    /\ shut' = TRUE
    /\ UNCHANGED <<revised, retry, cfg, uris, mode, pc, cur, off, err, collected, calls, outs,
                   files, memos, manifests, dirs, unpacked, xfers, nextract>>

\* the DataFile fields of a VisiumDatasetConfig, md5sum as scrapped
ConfigFiles == BatchInputs

\* mutant: the builder hands over the DataFile of the config
config_uri_WholeFile(f) == f

\* `self._config.<field>.uri`: the str alone, which DataFile.parse turns
\* into a descriptor without md5sum
config_uri(f) == DataFile(f.uri, NoMd5, <<>>)

\* the tuple `urls` of VisiumDatasetBuilder.download
BuilderUrls == { config_uri(f) : f \in ConfigFiles }

InitWith ==
    /\ InitRemote
    /\ InitUnmanaged
    /\ cfg \in Configs
    /\ cfg.max_workers = 1
    /\ mode \in {"single", "batch"}
    /\ uris \in [1..1 -> BatchInputs \cup BuilderUrls]
    /\ InitFilesystem
    /\ pc = [k \in Tasks |-> "unsubmitted"]
    /\ cur = [k \in Tasks |-> NoData]
    /\ off = [k \in Tasks |-> 0]
    /\ err = [k \in Tasks |-> NoErr]
    /\ mainpc = "entering"
    /\ collected = NoneCollected(mode)
    /\ retry = [k \in Tasks |-> 0]
    /\ calls = 1
    /\ outs = <<>>
    /\ xfers = [k \in Tasks |-> 0]
    /\ nextract = [k \in Tasks |-> 0]

NextWith ==
    \/ DownloadManager_enter
    \/ with_body_call
    \/ \E k \in Tasks : worker_start(k)
    \/ \E k \in Tasks : download(k)
    \/ \E k \in Tasks : write_chunk(k)
    \/ \E k \in Tasks : transfer_error(k)
    \/ \E k \in Tasks : download_return(k)
    \/ \E k \in Tasks : compute_md5sum(k)
    \/ \E k \in Tasks : extract(k)
    \/ \E k \in Tasks : extract_finish(k)
    \/ \E k \in Tasks : extract_error(k)
    \/ collect
    \/ interrupt
    \/ DownloadManager_exit
    \/ executor_exit
    \/ with_again

SpecWith == InitWith /\ [][NextWith]_vars

\* ================================================================ claims
CachePath(k) == build_local_filepath(parse(uris[k]), "downloads")

IsRemote(k) == Scheme(uris[k].uri) # "file"

\* C1 (as claimed): within one batch call no two workers have the same
\* cache path open for writing at the same time.
C1_OneFetchPerCachePath ==
    \A j, k \in Tasks :
        (j # k /\ pc[j] = "writing" /\ pc[k] = "writing")
            => CachePath(j) # CachePath(k)

\* C2 (as claimed): once the batch call is over and the pool is idle, every
\* submitted resource has run its pipeline to Done or Failed, whatever
\* happened to its siblings.
C2_SiblingsRunToCompletion ==
    (mainpc # "calling" /\ \A k \in Tasks : pc[k] \in Settled)
        => \A k \in Tasks : pc[k] \in {"done", "failed"}

\* C3 (as claimed): for a batch of two where the first resource fails
\* checksum validation and the second succeeds, the caller gets a value
\* that carries the second resource's final path.
C3_PartialResultReported ==
    (mainpc # "calling" /\ Len(uris) = 2
        /\ pc[1] = "failed" /\ err[1].kind = "ChecksumMismatch" /\ pc[2] = "done")
        => (outs[calls].status = "returned" /\ outs[calls].value[2] = cur[2])

\* C4 (as claimed): a resource fails on a transfer error only when the
\* retry budget is used up, i.e. the failing attempt is attempt number
\* max_retries.
C4_FetchErrorRetriedUntilBudget ==
    \A k \in Tasks :
        (pc[k] = "failed" /\ err[k].kind = "FetchError")
            => retry[k] + 1 >= cfg.max_retries

\* C5: every attempt after the first one of a call starts a transfer that
\* truncates the destination file, whatever force_download is and although
\* the previous attempt left a file there (unless opening the source fails).
C5_RetryForcesFreshDownload ==
    [][\A k \in Tasks :
          (pc[k] = "attempt" /\ retry[k] > 0 /\ retry[k] < cfg.max_retries
              /\ pc'[k] # "attempt")
              => \/ pc'[k] = "failed" /\ err'[k].kind = "FetchError"
                 \/ /\ pc'[k] = "writing"
                    /\ files'[VisiumSavePath(uris[k])] = <<>>
                    /\ xfers'[k] = xfers[k] + 1]_vars

C5_Witness ==
    \E k \in Tasks :
        /\ retry[k] > 0 /\ pc[k] = "writing" /\ ~cfg.force_download
        /\ xfers[k] >= 2 /\ files[VisiumSavePath(uris[k])] = <<>>

\* C6: when validation is on and the descriptor's md5sum X differs from the
\* digest Y obtained for the file, compute_md5sum fails with an error that
\* carries X and Y, creates no directory and no manifest, and the resource
\* never starts an extraction in that call.
C6_MismatchFailsBeforeExtraction ==
    /\ [][\A k \in Tasks :
             (pc[k] = "md5" /\ pc'[k] # "md5" /\ cfg.validate_checksums
                 /\ cur[k].md5sum # NoMd5
                 /\ cur[k].md5sum # memos'[Md5sumFilepath(cur[k])])
                 => /\ pc'[k] = "failed"
                    /\ err'[k] = Error("ChecksumMismatch", cur[k].md5sum,
                                       memos'[Md5sumFilepath(cur[k])])
                    /\ dirs' = dirs /\ manifests' = manifests
                    /\ unpacked' = unpacked]_vars
    /\ [](\A k \in Tasks :
             err[k].kind = "ChecksumMismatch"
                 => pc[k] = "failed" /\ nextract[k] = 0)

C6_Witness ==
    \E k \in Tasks :
        /\ pc[k] = "failed" /\ err[k].kind = "ChecksumMismatch"
        /\ err[k].expected = WrongMd5
        /\ err[k].computed = Md5Hex(RemoteContent(uris[k].uri))
        /\ Ext(uris[k].uri) = ".tar.gz"

C8_Idempotent ==
    (cfg.download_policy = "missing" /\ cfg.extract_policy = "missing")
        => \A k \in Tasks :
               /\ xfers[k] <= 1
               /\ (Len(outs) >= 1 /\ outs[1].status = "returned")
                      => nextract[k] <= 1
               /\ \A i, j \in 1..Len(outs) :
                      (outs[i].status = "returned" /\ outs[j].status = "returned")
                          => outs[i].value[k].uri = outs[j].value[k].uri

C8_Witness ==
    /\ cfg.download_policy = "missing" /\ cfg.extract_policy = "missing"
    /\ Len(outs) = 2 /\ outs[1].status = "returned" /\ outs[2].status = "returned"
    /\ xfers[1] = 1 /\ nextract[1] = 1
    /\ outs[2].value[1].uri = MetadataFilepath(DataFile(CachePath(1), NoMd5, <<>>))

\* C9 (as claimed): a transfer that was cut short leaves nothing that passes
\* for a complete download: every digest memo beside a cache file is the
\* digest of the whole resource, and a pipeline that reaches Done did so on
\* the whole file.
C9_NoTruncatedFileAccepted ==
    \A k \in Tasks :
        IsRemote(k) =>
            /\ Exists(memos, Md5sumFilepath(DataFile(CachePath(k), NoMd5, <<>>)))
                   => memos[Md5sumFilepath(DataFile(CachePath(k), NoMd5, <<>>))]
                          = Md5Hex(RemoteContent(uris[k].uri))
            /\ pc[k] = "done" => files[CachePath(k)] = RemoteContent(uris[k].uri)

\* C10: with download_policy = "never" a resource that is not a local file
\* fails with the download-disallowed error without a transfer, and nothing
\* is created under the download directory.
C10_NeverPolicyFailsFast ==
    cfg.download_policy = "never"
        => /\ \A k \in Tasks :
                  IsRemote(k) =>
                      /\ pc[k] \in {"pending", "download", "failed"}
                      /\ pc[k] = "failed" => err[k].kind = "DownloadDisallowed"
                      /\ xfers[k] = 0
           /\ \A p \in (DOMAIN files) \cup (DOMAIN memos) \cup (DOMAIN manifests) \cup dirs :
                  p[2] # "downloads"

C10_Witness ==
    /\ cfg.download_policy = "never"
    /\ \E k \in Tasks :
          /\ IsRemote(k) /\ pc[k] = "failed"
          /\ err[k].kind = "DownloadDisallowed"
          /\ ~Exists(files, CachePath(k))

\* C11 (as claimed): with download_policy = "never" a remote resource whose
\* file already exists (here: whole) at its cache path is not failed by
\* download: it goes on to verification with the cached file, without a
\* transfer.
C11_NeverPolicyUsesCachedFile ==
    [][\A k \in Tasks :
          (/\ pc[k] = "download" /\ pc'[k] # "download"
           /\ cfg.download_policy = "never"
           /\ IsRemote(k) /\ Exists(files, CachePath(k))
           /\ files[CachePath(k)] = RemoteContent(uris[k].uri))
              => /\ pc'[k] = "md5"
                 /\ cur'[k].uri = CachePath(k)
                 /\ xfers' = xfers /\ files' = files]_vars

\* C12: for a descriptor whose is_local_file() is true, download starts no
\* transfer, creates nothing under the download directory and hands on the
\* descriptor with its original path, under every download policy.
C12_LocalFileNeverFetched ==
    /\ [][\A k \in Tasks :
             (/\ pc[k] = "download" /\ pc'[k] # "download"
              /\ is_local_file(parse(uris[k])) = "True")
                 => /\ pc'[k] = "md5"
                    /\ cur'[k] = parse(uris[k])
                    /\ cur'[k].uri = uris[k].uri
                    /\ xfers' = xfers /\ files' = files /\ dirs' = dirs]_vars
    /\ [](\A k \in Tasks :
             uris[k].uri = StagedFile
                 => /\ xfers[k] = 0
                    /\ pc[k] = "failed" => err[k].kind # "DownloadDisallowed"
                    /\ \A p \in (DOMAIN files) \cup dirs : p[2] # "downloads")

C12_Witness ==
    /\ cfg.download_policy = "never"
    /\ \E k \in Tasks :
          /\ uris[k].uri = StagedFile
          /\ pc[k] = "md5"
          /\ cur[k].uri = StagedFile
          /\ xfers[k] = 0

\* C13 (as claimed): extraction writes only below an extraction directory,
\* and an archive that holds a member named ../../etc/passwd is never
\* recorded as extracted: its extraction fails.
C13_NoWriteOutsideTarget ==
    /\ \A d \in DOMAIN unpacked :
          unpacked[d] # {} => \E i \in 1..Len(d) : d[i] = "extracted"
    /\ \A p \in DOMAIN manifests : Traversal \notin manifests[p]

\* C14 (as claimed): when a call under download_policy = "always" has
\* downloaded a resource again over its cached file, the digest that
\* compute_md5sum hands on is the digest of the file now on disk.
C14_CacheBustRefreshesDigest ==
    \A k \in Tasks :
        (/\ cfg.download_policy = "always" /\ IsRemote(k)
         /\ xfers[k] >= 2 /\ pc[k] = "extract")
            => cur[k].md5sum = Md5Hex(files[cur[k].uri])

\* the digest a compute_md5sum step of resource k has produced: carried on
\* the descriptor it returns, or named in the mismatch error it raises
Md5Result(p, c, e, k) == IF p[k] = "failed" THEN e[k].computed ELSE c[k].md5sum

\* C15: when a memo exists beside the file, compute_md5sum produces the
\* memo's content whatever the file holds and changes neither the memo nor
\* the file; when none exists it produces the digest of the file and writes
\* exactly that to the memo; nothing else ever writes a memo.
C15_MemoLoadedNotRecomputed ==
    /\ [][\A k \in Tasks :
             (pc[k] = "md5" /\ pc'[k] # "md5")
                 => LET mp == Md5sumFilepath(cur[k])
                        result == Md5Result(pc', cur', err', k)
                    IN  /\ files' = files
                        /\ Exists(memos, mp)
                               => (result = memos[mp] /\ memos' = memos)
                        /\ ~Exists(memos, mp)
                               => /\ result = Md5Hex(files[cur[k].uri])
                                  /\ memos' = WriteFile(memos, mp, result)]_vars
    /\ [][memos' # memos
             => \E k \in Tasks :
                    /\ pc[k] = "md5" /\ pc'[k] # "md5"
                    /\ ~Exists(memos, Md5sumFilepath(cur[k]))]_vars

\* a memo was loaded although the file beside it has another digest
C15_Witness ==
    \E k \in Tasks :
        /\ pc[k] = "extract"
        /\ Exists(memos, Md5sumFilepath(cur[k]))
        /\ cur[k].md5sum = memos[Md5sumFilepath(cur[k])]
        /\ cur[k].md5sum # Md5Hex(files[cur[k].uri])

\* C16: with validate_checksums = false compute_md5sum never fails, whatever
\* md5sum the descriptor expects; it still produces the digest, the memo
\* beside the file holds it, and the descriptor handed to extract carries it
\* in place of the expected one.
C16_UnvalidatedDigestCarried ==
    /\ [][\A k \in Tasks :
             (pc[k] = "md5" /\ pc'[k] # "md5" /\ ~cfg.validate_checksums)
                 => LET mp == Md5sumFilepath(cur[k])
                    IN  /\ pc'[k] = "extract"
                        /\ cur'[k].uri = cur[k].uri
                        /\ Exists(memos', mp)
                        /\ cur'[k].md5sum = memos'[mp]
                        /\ ~Exists(memos, mp)
                               => cur'[k].md5sum = Md5Hex(files[cur[k].uri])]_vars
    /\ [](~cfg.validate_checksums
             => \A k \in Tasks :
                    /\ err[k].kind # "ChecksumMismatch"
                    /\ pc[k] \in {"extract", "extracting"}
                           => /\ cur[k].md5sum # NoMd5
                              /\ cur[k].md5sum = memos[Md5sumFilepath(cur[k])])

C16_Witness ==
    /\ ~cfg.validate_checksums
    /\ \E k \in Tasks :
          /\ uris[k].md5sum = WrongMd5
          /\ pc[k] = "extracting"
          /\ cur[k].md5sum = Md5Hex(files[cur[k].uri])
          /\ cur[k].md5sum # uris[k].md5sum
          /\ memos[Md5sumFilepath(cur[k])] = cur[k].md5sum

\* the resource is an archive by its file extension
IsArchive(k) == Ext(uris[k].uri) \in TarExtensions \cup ZipExtensions

\* C17: for an archive under an extract policy other than "never", extract
\* unpacks exactly when the policy is "always" or the manifest is absent;
\* with the manifest present under "missing" it unpacks nothing, leaves the
\* manifest as it is and returns the manifest's path.
C17_ExtractIffAlwaysOrNoManifest ==
    [][\A k \in Tasks :
          (/\ pc[k] = "extract" /\ pc'[k] # "extract"
           /\ IsArchive(k) /\ cfg.extract_policy # "never")
              => LET mf == MetadataFilepath(cur[k])
                     required == cfg.extract_policy = "always" \/ ~Exists(manifests, mf)
                 IN  /\ required
                            => /\ pc'[k] = "extracting"
                               /\ nextract'[k] = nextract[k] + 1
                     /\ ~required
                            => /\ pc'[k] = "done"
                               /\ cur'[k].uri = mf
                               /\ nextract' = nextract
                               /\ manifests' = manifests
                               /\ unpacked' = unpacked
                               /\ dirs' = dirs]_vars

\* a second call under "missing" returned the manifest of the first
C17_Witness ==
    /\ cfg.extract_policy = "missing"
    /\ calls = 2
    /\ \E k \in Tasks :
          /\ IsArchive(k) /\ pc[k] = "done"
          /\ nextract[k] = 1
          /\ Exists(manifests, cur[k].uri)
          /\ cur[k].uri = MetadataFilepath(DataFile(CachePath(k), NoMd5, <<>>))

\* C18 (as claimed): with extract_policy = "never" a pipeline does not come
\* to Done for an archive that has no manifest.
C18_NeverPolicyFailsUnextracted ==
    cfg.extract_policy = "never"
        => \A k \in Tasks :
               (/\ pc[k] = "done" /\ IsArchive(k)
                /\ ~Exists(manifests, MetadataFilepath(DataFile(CachePath(k), NoMd5, <<>>))))
                   => FALSE

\* C19 (as claimed): the descriptor object the caller passed in has the same
\* local-path state after the pipeline as before it: a DataFile built
\* without a local path never gets one, download hands the path out on a
\* new object.
C19_DescriptorNeverMutated ==
    \A k \in Tasks : cur[k] = NoPath

ValidItem(item) ==
    /\ item.type \in UriTypes
    /\ \/ Scheme(item.uri) = "file" /\ Exists(files, item.uri)
       \/ Scheme(item.uri) \in KnownProtocols \ {"file", "local"}

\* C21 (as claimed): parse yields a descriptor only for an existing local
\* path or a URI of a known remote protocol; for every other item it
\* produces none.
C21_ParseFailsFast ==
    \A k \in Tasks :
        (mode = "fn" /\ pc[k] = "parsed") => ValidItem(uris[k])

\* C22: a file whose name ends with a tar extension is a tar archive and one
\* whose name ends with .zip a zip archive, whatever the file holds; for any
\* other name the head of the file decides, tar before zip; a file that is
\* neither is NotExtractable, which is a result and not an exception.
C22_DetectionOrder ==
    \A k \in Tasks :
        (mode = "fn" /\ pc[k] = "detected")
            => LET e == Lower(Ext(uris[k].uri))
                   c == files[uris[k].uri]
                   r == outs[Len(outs)].value
                   tar == c # <<>> /\ c[1] \in {TarMagic, PolyglotMagic}
                   zip == c # <<>> /\ c[1] \in {ZipMagic, PolyglotMagic}
               IN  /\ err[k] = NoErr
                   /\ e \in TarExtensions => r = "TarExtractor"
                   /\ e \in ZipExtensions => r = "ZipExtractor"
                   /\ e \notin TarExtensions \cup ZipExtensions
                          => /\ tar => r = "TarExtractor"
                             /\ (~tar /\ zip) => r = "ZipExtractor"
                             /\ (~tar /\ ~zip) => r = "NotExtractable"

\* a file named like a tar archive that holds a zip head is taken for tar
C22_Witness ==
    \E k \in Tasks :
        /\ mode = "fn" /\ pc[k] = "detected"
        /\ Lower(Ext(uris[k].uri)) = ".tgz"
        /\ Exists(files, uris[k].uri)
        /\ files[uris[k].uri] # <<>>
        /\ files[uris[k].uri][1] = ZipMagic
        /\ outs[Len(outs)].value = "TarExtractor"

\* the file the descriptor names has no archive extension and no archive head
NotArchive(file) ==
    /\ Lower(Ext(file.uri)) \notin TarExtensions \cup ZipExtensions
    /\ \/ files[file.uri] = <<>>
       \/ files[file.uri][1] \notin {TarMagic, ZipMagic, PolyglotMagic}

\* C23: for a verified file that is no archive, extract is a pass-through
\* under every extract policy: the pipeline is Done with the descriptor it
\* got, and no directory, manifest or member is created.
C23_NotArchivePassesThrough ==
    /\ [][\A k \in Tasks :
             (pc[k] = "extract" /\ pc'[k] # "extract" /\ NotArchive(cur[k]))
                 => /\ pc'[k] = "done"
                    /\ cur'[k] = cur[k]
                    /\ dirs' = dirs /\ manifests' = manifests
                    /\ unpacked' = unpacked /\ nextract' = nextract
                    /\ files' = files]_vars
    /\ [](\A k \in Tasks :
             (pc[k] = "done" /\ ~IsArchive(k))
                 => /\ cur[k].uri = CachePath(k)
                    /\ nextract[k] = 0
                    /\ ~Exists(manifests, MetadataFilepath(cur[k])))

C23_Witness ==
    /\ cfg.extract_policy = "always"
    /\ \E k \in Tasks :
          /\ uris[k].uri = <<"https", "summary", ".csv">>
          /\ pc[k] = "done"
          /\ cur[k].uri = CachePath(k)
          /\ files[cur[k].uri] = RemoteContent(uris[k].uri)
          /\ manifests = <<>> /\ unpacked = <<>>
          /\ ExtractDir(cur[k]) \notin dirs

\* C24 (as claimed, single input): download_and_extract called with one
\* UriType runs _worker on that item and returns its single value.
C24_SingleInSingleOut ==
    \A k \in Tasks :
        (mode = "fn" /\ pc[k] = "dispatched" /\ uris[k].type \in UriTypes)
            => /\ outs[Len(outs)].status = "single"
               /\ outs[Len(outs)].value = <<uris[k]>>

\* the path names an extracted_files.json below an "extracted" directory
IsManifestPath(p) ==
    Len(p) >= 3 /\ p[Len(p)] = "extracted_files.json" /\ p[Len(p) - 2] = "extracted"

\* C25: a pipeline ends with the manifest path exactly when the resource is
\* an archive that this call has extracted or whose manifest it has reused;
\* in every other case it ends with the path of the local or downloaded
\* file itself.
C25_ManifestPathIffExtracted ==
    [][\A k \in Tasks :
          (pc'[k] = "done" /\ pc[k] # "done")
              => LET mf == MetadataFilepath(cur[k])
                     reused == /\ IsArchive(k)
                               /\ cfg.extract_policy = "missing"
                               /\ Exists(manifests, mf)
                 IN  IF pc[k] = "extracting" THEN
                         /\ IsArchive(k)
                         /\ IsManifestPath(cur'[k].uri)
                         /\ cur'[k].uri = mf
                         /\ Exists(manifests', mf)
                     ELSE IF reused THEN
                         /\ IsManifestPath(cur'[k].uri)
                         /\ cur'[k].uri = mf
                         /\ manifests' = manifests
                     ELSE
                         /\ ~IsManifestPath(cur'[k].uri)
                         /\ cur'[k].uri = CachePath(k)]_vars

\* an archive's manifest of an earlier call was reused and its path returned
C25_Witness ==
    \E k \in Tasks :
        /\ IsArchive(k) /\ pc[k] = "done"
        /\ calls = 2 /\ xfers[k] = 1 /\ nextract[k] = 1
        /\ IsManifestPath(cur[k].uri)
        /\ Exists(manifests, cur[k].uri)
        /\ Exists(files, CachePath(k))

\* C26: with max_workers = N never more than N pipelines are between their
\* start and their end, and a pipeline that has started stays with its
\* worker until it is Done or Failed: it is never queued again.
C26_AtMostMaxWorkersRunning ==
    /\ [](Cardinality({k \in Tasks : pc[k] \in Running}) <= cfg.max_workers)
    /\ [][\A k \in Tasks :
             pc[k] \in Running => pc'[k] \in Running \cup {"done", "failed"}]_vars

\* one worker, two resources: the second waits while the first is running
C26_Witness ==
    /\ cfg.max_workers = 1 /\ Len(uris) = 2
    /\ pc[1] = "writing" /\ pc[2] = "pending"

\* C27 (as claimed): when every transfer of a batch runs to its end, no
\* submitted resource is dropped: none ends in a state from which its
\* pipeline can reach neither Done nor Failed.  A cancelled future is never
\* run.
C27_EveryResourceResolved ==
    (\A j \in Tasks : err[j].kind # "FetchError")
        => \A k \in Tasks : pc[k] # "cancelled"

\* C28: within one pipeline compute_md5sum starts only when download has
\* returned with the file in place (a transfer, if any, at its end), extract
\* starts only when compute_md5sum has returned a descriptor that carries a
\* digest, and an extraction is started only on such a descriptor.
C28_StagesInCausalOrder ==
    /\ [][\A k \in Tasks :
             /\ (pc'[k] = "md5" /\ pc[k] # "md5")
                    => /\ pc[k] \in {"download", "writing"}
                       /\ pc[k] = "writing" => off[k] = Len(RemoteContent(uris[k].uri))
                       /\ Exists(files', cur'[k].uri)
             /\ (pc'[k] = "extract" /\ pc[k] # "extract")
                    => /\ pc[k] = "md5"
                       /\ cur'[k].md5sum # NoMd5
             /\ (pc'[k] = "extracting" /\ pc[k] # "extracting")
                    => /\ pc[k] = "extract"
                       /\ cur[k].md5sum # NoMd5]_vars
    /\ [](\A k \in Tasks :
             /\ pc[k] \in {"extract", "extracting"} => cur[k].md5sum # NoMd5
             /\ err[k].kind # "MissingMd5sum")

\* an extraction running on a descriptor whose digest was computed, the
\* caller having given none
C28_Witness ==
    \E k \in Tasks :
        /\ uris[k].md5sum = NoMd5
        /\ pc[k] = "extracting"
        /\ xfers[k] = 1
        /\ cur[k].md5sum = Md5Hex(files[cur[k].uri])

\* C29: a transfer that stops before the end of the remote content ends the
\* call with the read error, leaves the destination file as written so far
\* and opens no further transfer; nothing is fetched again until the caller
\* makes its next call.
C29_FetcherDoesNotRetry ==
    [][\A k \in Tasks :
          /\ (/\ pc[k] = "writing"
              /\ pc'[k] # "writing"
              /\ off[k] < Len(RemoteContent(cur[k].uri)))
                 => /\ pc'[k] = "failed"
                    /\ err'[k].kind = "FetchError"
                    /\ files' = files
                    /\ xfers' = xfers
          /\ (/\ pc[k] = "failed"
              /\ err[k].kind = "FetchError"
              /\ calls' = calls)
                 => /\ pc'[k] = "failed"
                    /\ files' = files
                    /\ xfers' = xfers]_vars

\* a call that failed in mid-transfer, the first chunk alone on disk
C29_Witness ==
    \E k \in Tasks :
        /\ mode = "single"
        /\ pc[k] = "failed"
        /\ err[k].kind = "FetchError"
        /\ xfers[k] = 1
        /\ Exists(files, CachePath(k))
        /\ Len(files[CachePath(k)]) > 0
        /\ Len(files[CachePath(k)]) < Len(RemoteContent(uris[k].uri))

\* C30 (as claimed): once the with statement around a batch is over, whether
\* __exit__ returned or raised, neither the progress display nor the
\* executor is still held.
C30_BothReleasedOnEveryExit ==
    mainpc \in {"exited", "exit_raised"} => held = {}

\* C31 (as claimed): build_local_filepath never fails: a descriptor that
\* DataFile.parse has returned yields a path whatever the disk holds.
C31_BuildCachePathNeverFails ==
    \A k \in Tasks :
        (mode = "fn" /\ cur[k] # NoData) => pc[k] # "failed"

\* the member is on disk where the extractor of the archive puts it
Unpacked(fsmap, extractor, dir, name) ==
    LET t == Target(extractor, dir, name)
    IN  t[1] \in DOMAIN fsmap /\ t[2] \in fsmap[t[1]]

\* C32: a manifest is written only by the step in which extractall has run
\* through, it then lists only members that are unpacked, and a call whose
\* extraction raises writes no manifest.
C32_ManifestOnlyAfterExtraction ==
    [][/\ manifests' # manifests
          => \E k \in Tasks :
                /\ pc[k] = "extracting" /\ pc'[k] = "done"
                /\ manifests' = WriteFile(manifests, MetadataFilepath(cur[k]),
                                    manifests'[MetadataFilepath(cur[k])])
                /\ \A n \in manifests'[MetadataFilepath(cur[k])] :
                      Unpacked(unpacked',
                          get_extractor(cur[k].uri, files[cur[k].uri]),
                          ExtractDir(cur[k]), n)
       /\ \A k \in Tasks :
             (pc[k] = "extracting" /\ pc'[k] = "failed") => manifests' = manifests]_vars

\* a first call whose extraction raised after one member and left no
\* manifest, then a second call that extracted and wrote it
C32_Witness ==
    \E k \in Tasks :
        /\ mode = "single"
        /\ calls = 2
        /\ outs # <<>>
        /\ outs[1].error.kind = "ExtractionError"
        /\ nextract[k] = 2
        /\ pc[k] = "done"
        /\ Exists(manifests, cur[k].uri)

\* C33 (as claimed): the memo compute_md5sum writes for a file sits at the
\* path of the file with its extension replaced by .md5sum, and no other
\* file of the directory has its memo at that path.
C33_OneMemoPerFile ==
    \A k \in Tasks :
        (mode = "fn" /\ pc[k] = "summed")
            => /\ DOMAIN memos = {[uris[k].uri EXCEPT ![Len(uris[k].uri)] = ".md5sum"]}
               /\ \A u \in SiblingPaths \ {uris[k].uri} :
                     Md5sumFilepath(DataFile(u, NoMd5, <<>>)) \notin DOMAIN memos

\* C34: in a call of _download_and_extract_file in which one attempt has
\* failed validation, a memo with a digest other than the expected one lies
\* beside the cache file, no later attempt passes validation whatever the
\* file then holds, and the loop ends in RuntimeError with max_retries
\* attempts made (a transfer that raises ends the call with its own error).
C34_RetriesFutileAfterFailedValidation ==
    \A k \in Tasks :
        (mode = "visium" /\ retry[k] >= 1)
            => /\ Exists(memos, with_suffix_md5sum(VisiumSavePath(uris[k])))
               /\ memos[with_suffix_md5sum(VisiumSavePath(uris[k]))] # uris[k].md5sum
               /\ pc[k] \in {"attempt", "writing", "validate", "failed"}
               /\ pc[k] = "failed"
                     => \/ err[k].kind = "RuntimeError" /\ retry[k] = cfg.max_retries
                        \/ err[k].kind = "FetchError"

\* the retries have fetched the whole resource, whose digest is the expected
\* one, and the call has still ended in RuntimeError
C34_Witness ==
    \E k \in Tasks :
        /\ mode = "visium"
        /\ pc[k] = "failed"
        /\ err[k].kind = "RuntimeError"
        /\ retry[k] >= 2
        /\ Exists(files, VisiumSavePath(uris[k]))
        /\ files[VisiumSavePath(uris[k])] = RemoteContent(uris[k].url)
        /\ Md5Hex(files[VisiumSavePath(uris[k])]) = uris[k].md5sum

\* C35 (as claimed): with OVERWRITE_CACHE off, whenever the st_visium
\* DataFile has a local path, the file at that path has the digest the
\* descriptor declares.
C35_LocalPathOnlyOnValidFile ==
    \A k \in Tasks :
        (mode = "datafile" /\ ~cfg.OVERWRITE_CACHE /\ cur[k] # NoPath)
            => /\ Exists(files, cur[k])
               /\ Md5Hex(files[cur[k]]) = uris[k].md5sum

\* C36 (as claimed): with force_extract off, an extraction directory that
\* _extract_file returns holds every member of the archive.
C36_ReusedDirectoryIsComplete ==
    \A k \in Tasks :
        (/\ mode = "visium" /\ ~cfg.force_extract
         /\ pc[k] = "done" /\ Ext(uris[k].url) = ".tar.gz")
            => /\ cur[k] \in DOMAIN unpacked
               /\ Members \subseteq unpacked[cur[k]]

\* C37: when _validate_md5sum finds a cache file that is not the whole
\* resource and no memo beside it, it computes the digest, the attempt
\* fails (i + 1, nothing returned), and the attempt after it, if one is
\* left, opens the cache file anew; in a call with a failed attempt the
\* file is neither extracted nor returned.
C37_TruncatedFileNotTakenAsValid ==
    /\ [][\A k \in Tasks :
             /\ (/\ mode = "visium"
                 /\ pc[k] = "validate" /\ pc'[k] # "validate"
                 /\ ~Exists(memos, with_suffix_md5sum(VisiumSavePath(uris[k])))
                 /\ files[VisiumSavePath(uris[k])] # RemoteContent(uris[k].url))
                    => /\ pc'[k] = "attempt"
                       /\ retry'[k] = retry[k] + 1
                       /\ cur'[k] = cur[k]
                       /\ memos'[with_suffix_md5sum(VisiumSavePath(uris[k]))]
                              = Md5Hex(files[VisiumSavePath(uris[k])])
             /\ (/\ mode = "visium"
                 /\ pc[k] = "attempt" /\ pc'[k] = "writing" /\ retry[k] >= 1)
                    => files'[VisiumSavePath(uris[k])] = <<>>]_vars
    /\ [](\A k \in Tasks :
             (mode = "visium" /\ retry[k] >= 1)
                 => pc[k] \notin {"extract", "extracting", "done"})

\* the first call was cut off in mid-transfer; the second call, without
\* force_download, has hashed the file it found and is fetching it again
C37_Witness ==
    \E k \in Tasks :
        /\ mode = "visium" /\ ~cfg.force_download
        /\ calls = 2
        /\ outs # <<>>
        /\ outs[1].error.kind = "FetchError"
        /\ retry[k] = 1
        /\ pc[k] = "writing"
        /\ xfers[k] = 2
        /\ Exists(memos, with_suffix_md5sum(VisiumSavePath(uris[k])))
        /\ memos[with_suffix_md5sum(VisiumSavePath(uris[k]))]
               \notin {uris[k].md5sum, Md5Hex(RemoteContent(uris[k].url))}

\* C38: the executor, once shut down by __exit__, stays shut down; on such
\* a manager a call with a sequence raises RuntimeError without starting a
\* worker, also inside a second with statement, while a call with a single
\* UriType runs its pipeline inline.
C38_ExecutorNeverRecreated ==
    /\ [][/\ shut => shut'
          /\ (mainpc = "entered" /\ mainpc' # "entered" /\ shut /\ mode = "batch")
                => /\ mainpc' = "raised"
                   /\ outs' = Append(outs,
                          Outcome("raised", <<>>, Error("RuntimeError", NoMd5, NoMd5)))
                   /\ pc' = pc
          /\ (mainpc = "entered" /\ mainpc' # "entered" /\ shut /\ mode = "single")
                => /\ mainpc' = "calling"
                   /\ \A k \in Tasks : pc'[k] = "download"]_vars
    /\ []((shut /\ mode = "batch")
             => \A k \in Tasks : pc[k] \in Settled \cup {"unsubmitted"})

\* a second with statement on the manager: the call with a sequence has
\* raised, nothing was submitted
C38_Witness ==
    /\ mode = "batch"
    /\ shut
    /\ calls = 2
    /\ "executor" \in held
    /\ mainpc = "raised"
    /\ outs # <<>>
    /\ outs[Len(outs)].error.kind = "RuntimeError"
    /\ \A k \in Tasks : pc[k] = "unsubmitted"

\* C39: a resource the builder submits reaches compute_md5sum without an
\* expected md5sum and never fails with a checksum mismatch, whatever
\* validate_checksums is and whatever md5sum the config records for it.
C39_BuilderResourcesNeverVerified ==
    \A k \in Tasks :
        uris[k] \in BuilderUrls
            => /\ err[k].kind # "ChecksumMismatch"
               /\ pc[k] = "md5" => cur[k].md5sum = NoMd5

\* validation is on, the config records an md5sum that is not the digest
\* of the file fetched, and the pipeline is done
C39_Witness ==
    \E k \in Tasks :
        /\ uris[k] \in BuilderUrls
        /\ cfg.validate_checksums
        /\ pc[k] = "done"
        /\ Exists(memos, Md5sumFilepath(DataFile(CachePath(k), NoMd5, <<>>)))
        /\ \E f \in ConfigFiles :
              /\ f.uri = uris[k].uri
              /\ f.md5sum # NoMd5
              /\ f.md5sum # memos[Md5sumFilepath(DataFile(CachePath(k), NoMd5, <<>>))]

====
